---- MODULE Spec2Model ----
(***************************************************************************)
(* kc-compat.py: the KernelCare compatibility check.  One invocation of    *)
(* main() is a straight line through container detection, kernel hash,     *)
(* distro detection, the optional report block, the remote check and the   *)
(* verdict.  Text is a sequence of one-character strings; a file is a      *)
(* record [st, data]; a printed line is a record [fmt, val] (the literal   *)
(* or format string, and the formatted argument).                          *)
(***************************************************************************)
EXTENDS Integers, Sequences, FiniteSets, TLC

VARIABLES fs, net, argv, pc, silent, report, version_data, kernel_hash,
          distro_name, distro_version, compat, out, code, exc, requests, prev

vars == <<fs, net, argv, pc, silent, report, version_data, kernel_hash,
          distro_name, distro_version, compat, out, code, exc, requests, prev>>

env == <<fs, net>>
locals == <<silent, report, version_data, kernel_hash, distro_name,
            distro_version, compat>>

(* ---------------------------------------------------------------- text *)

Whitespace == {" ", "\t", "\n", "\r", "\f"}
Quotes == {"\"", "'"}

RECURSIVE LStrip(_, _)
LStrip(s, chars) ==
    IF s # <<>> /\ Head(s) \in chars THEN LStrip(Tail(s), chars) ELSE s

RECURSIVE RStrip(_, _)
RStrip(s, chars) ==
    IF s # <<>> /\ s[Len(s)] \in chars
    THEN RStrip(SubSeq(s, 1, Len(s) - 1), chars) ELSE s

\* str.strip(chars): every leading and trailing character of the set goes
Strip(s, chars) == RStrip(LStrip(s, chars), chars)

StartsWith(s, p) == Len(s) >= Len(p) /\ SubSeq(s, 1, Len(p)) = p

\* sub in s
Contains(s, sub) ==
    \E i \in 1..(Len(s) - Len(sub) + 1) : SubSeq(s, i, i + Len(sub) - 1) = sub

\* index of the first occurrence of c in s, 0 when there is none
IndexOf(s, c) ==
    IF \E i \in 1..Len(s) : s[i] = c
    THEN CHOOSE i \in 1..Len(s) : s[i] = c /\ \A j \in 1..(i - 1) : s[j] # c
    ELSE 0

\* iterating a text file: the lines, each with its terminator
RECURSIVE FileLines(_)
FileLines(s) ==
    IF s = <<>> THEN <<>>
    ELSE LET i == IndexOf(s, "\n") IN
         IF i = 0 THEN <<s>>
         ELSE <<SubSeq(s, 1, i)>> \o FileLines(SubSeq(s, i + 1, Len(s)))

(* ---------------------------------------------------------- filesystem *)

P_VEINFO == "/proc/vz/veinfo"
P_VZVERSION == "/proc/vz/version"
P_CGROUP == "/proc/1/cgroup"
P_VERSION == "/proc/version"
P_OSRELEASE == "/etc/os-release"

Paths == {P_VEINFO, P_VZVERSION, P_CGROUP, P_VERSION, P_OSRELEASE}

File(data) == [st |-> "ok", data |-> data]
Missing == [st |-> "missing", data |-> <<>>]
Unreadable == [st |-> "unreadable", data |-> <<>>]

\* os.path.exists never raises; an unreadable file still exists
path_exists(f, p) == f[p].st # "missing"

(* ---------------------------------------------------------- exceptions *)

NoExc == [cls |-> "none", code |-> 0, msg |-> ""]
Exc(cls, c, msg) == [cls |-> cls, code |-> c, msg |-> msg]

\* the classes an exception class is an instance of (IOError is OSError)
Bases(cls) ==
    CASE cls = "HTTPError" -> {"HTTPError", "URLError", "OSError", "Exception"}
      [] cls = "URLError" -> {"URLError", "OSError", "Exception"}
      [] cls = "OSError" -> {"OSError", "Exception"}
      [] cls = "ValueError" -> {"ValueError", "Exception"}
      [] OTHER -> {}

IsInstance(e, cls) == cls \in Bases(e.cls)

(* -------------------------------------------------------------- values *)

None == [some |-> FALSE, v |-> <<>>]
Some(v) == [some |-> TRUE, v |-> v]
\* truthiness of an optional string: None and '' are falsy
Truthy(o) == o.some /\ o.v # <<>>

Line(fmt, val) == [fmt |-> fmt, val |-> val]

SUPPORTED_DISTROS == {
    <<"a", "l", "m", "a", "l", "i", "n", "u", "x">>,
    <<"a", "m", "z", "n">>,
    <<"c", "e", "n", "t", "o", "s">>,
    <<"c", "l", "o", "u", "d", "l", "i", "n", "u", "x">>,
    <<"d", "e", "b", "i", "a", "n">>,
    <<"o", "l">>,
    <<"r", "a", "s", "p", "b", "i", "a", "n">>,
    <<"r", "h", "e", "l">>,
    <<"r", "o", "c", "k", "y">>,
    <<"u", "b", "u", "n", "t", "u">>,
    <<"p", "r", "o", "x", "m", "o", "x">> }

MSG_SUPPORTED == "We support your distribution, but we're having trouble detecting your precise kernel configuration. Please, contact CloudLinux Inc. support by email at support@cloudlinux.com or by request form at https://www.cloudlinux.com/index.php/support"
MSG_GENERIC == "Please contact CloudLinux Inc. support by email at support@cloudlinux.com or by request form at https://www.cloudlinux.com/index.php/support"

(* ----------------------------------------------------------- functions *)

\* sha1(version_data).hexdigest(): the digest stands for its input (no
\* collisions), tagged so that it is never the input itself
get_kernel_hash_from_data(data) == <<"sha1:">> \o data

\* the host check forgotten
inside_vz_container_veinfo_only(f) == path_exists(f, P_VEINFO)

inside_vz_container(f) ==
    path_exists(f, P_VEINFO) /\ ~path_exists(f, P_VZVERSION)

\* '/lxc/' in open('/proc/1/cgroup').read(): open raises when the file is
\* missing or unreadable, and nothing here catches it
inside_lxc_container(f) ==
    IF f[P_CGROUP].st = "ok"
    THEN [exc |-> NoExc, ret |-> Contains(f[P_CGROUP].data, <<"/", "l", "x", "c", "/">>)]
    ELSE [exc |-> Exc("OSError", 0, "No such file or directory"), ret |-> FALSE]

\* one matching pair of enclosing quotes removed, and no more
parse_value_one_layer(line) ==
    LET t == Strip(SubSeq(line, IndexOf(line, "=") + 1, Len(line)), Whitespace)
    IN IF Len(t) >= 2 /\ t[1] \in Quotes /\ t[Len(t)] = t[1]
       THEN SubSeq(t, 2, Len(t) - 1) ELSE t

\* line.split('=', 1)[1].strip().strip('"\'')
parse_value(line) ==
    Strip(Strip(SubSeq(line, IndexOf(line, "=") + 1, Len(line)), Whitespace), Quotes)

\* one turn of the loop over the lines of the file
parse_line(acc, raw) ==
    LET line == Strip(raw, Whitespace) IN
    IF StartsWith(line, <<"I", "D", "=">>)
    THEN [acc EXCEPT !.name = Some(parse_value(line))]
    ELSE IF StartsWith(line, <<"V", "E", "R", "S", "I", "O", "N", "_", "I", "D", "=">>)
         THEN [acc EXCEPT !.version = Some(parse_value(line))]
         ELSE acc

RECURSIVE parse_lines(_, _)
parse_lines(acc, lines) ==
    IF lines = <<>> THEN acc
    ELSE parse_lines(parse_line(acc, Head(lines)), Tail(lines))

get_distro_info(f) ==
    IF ~path_exists(f, P_OSRELEASE) THEN [name |-> None, version |-> None]
    ELSE IF f[P_OSRELEASE].st # "ok" THEN [name |-> None, version |-> None]
    ELSE parse_lines([name |-> None, version |-> None],
                     FileLines(f[P_OSRELEASE].data))

\* the test negated
is_distro_supported_negated(name) == name \notin SUPPORTED_DISTROS

is_distro_supported(name) == name \in SUPPORTED_DISTROS

Url(hash) == <<"http://patches.kernelcare.com/">> \o hash \o <<"/version">>

\* is_compat: urlopen(url) answers with the network's response n
is_compat(n) ==
    IF n.cls = "none" THEN [exc |-> NoExc, ret |-> TRUE]
    ELSE IF IsInstance(n, "HTTPError")
         THEN IF n.code = 404 THEN [exc |-> NoExc, ret |-> FALSE]
              ELSE [exc |-> n, ret |-> FALSE]
         ELSE [exc |-> n, ret |-> FALSE]

myprint(s, o, line) == IF ~s THEN Append(o, line) ELSE o

\* version_data.decode('utf-8', errors='replace'): an invalid byte becomes
\* the replacement character
Decode(bytes) ==
    [i \in 1..Len(bytes) |-> IF bytes[i] = "0xFF" THEN "U+FFFD" ELSE bytes[i]]

OrUnknown(o) == IF Truthy(o) THEN o.v ELSE <<"U", "n", "k", "n", "o", "w", "n">>

\* the report block with the version printed before the distribution
ReportLines_swapped(hash, name, version, data) == <<
    Line("=== KernelCare Compatibility Report ===", <<>>),
    Line("Kernel Hash: ", hash),
    Line("Version: ", OrUnknown(version)),
    Line("Distribution: ", OrUnknown(name)),
    Line("Kernel: ", Strip(Decode(data), Whitespace)),
    Line("=====================================", <<>>) >>

ReportLines(hash, name, version, data) == <<
    Line("=== KernelCare Compatibility Report ===", <<>>),
    Line("Kernel Hash: ", hash),
    Line("Distribution: ", OrUnknown(name)),
    Line("Version: ", OrUnknown(version)),
    Line("Kernel: ", Strip(Decode(data), Whitespace)),
    Line("=====================================", <<>>) >>

\* the except clauses with the broadest I/O clause written first
Handlers_oserror_first == <<
    [cls |-> "OSError", fmt |-> "SYSTEM ERROR; %s", ret |-> 4],
    [cls |-> "HTTPError", fmt |-> "CONNECTION ERROR; HTTP %d", ret |-> 3],
    [cls |-> "URLError", fmt |-> "CONNECTION ERROR; %s", ret |-> 3],
    [cls |-> "Exception", fmt |-> "UNEXPECTED ERROR; %s", ret |-> 5] >>

\* the except clauses of main, in the order they are written
Handlers == <<
    [cls |-> "HTTPError", fmt |-> "CONNECTION ERROR; HTTP %d", ret |-> 3],
    [cls |-> "URLError", fmt |-> "CONNECTION ERROR; %s", ret |-> 3],
    [cls |-> "OSError", fmt |-> "SYSTEM ERROR; %s", ret |-> 4],
    [cls |-> "Exception", fmt |-> "UNEXPECTED ERROR; %s", ret |-> 5] >>

\* the first except clause the exception is an instance of
Handler(e) ==
    LET i == CHOOSE k \in 1..Len(Handlers) :
                 /\ IsInstance(e, Handlers[k].cls)
                 /\ \A j \in 1..(k - 1) : ~IsInstance(e, Handlers[j].cls)
    IN Handlers[i]

\* "%d" % e.code for an HTTP error, str(e.reason) or str(e) otherwise
HandlerArg(h, e) == IF h.cls = "HTTPError" THEN <<ToString(e.code)>> ELSE <<e.msg>>

(* --------------------------------------------------------- environment *)

CgroupFiles == {
    Missing, Unreadable,
    File(<<"1", "2", ":", "c", "p", "u", ":", "/", "l", "x", "c", "/", "c", "1", "\n">>),
    File(<<"0", ":", ":", "/", "\n">>) }

VersionFiles == {
    Unreadable,
    File(<<"L", "i", "n", "u", "x", " ", "5", "\n">>),
    File(<<"L", "0xFF", "\n">>) }

OsReleaseFiles == {
    Missing, Unreadable,
    File(<<"I", "D", "=", "c", "e", "n", "t", "o", "s", "\n", "V", "E", "R", "S", "I", "O", "N", "_", "I", "D", "=", "\"", "7", "\"", "\n">>),
    File(<<"I", "D", "=", "g", "e", "n", "t", "o", "o", "\n">>),
    File(<<"I", "D", "_", "L", "I", "K", "E", "=", "d", "e", "b", "i", "a", "n", "\n", "V", "E", "R", "S", "I", "O", "N", "_", "I", "D", "=", "1", "2", "\n">>),
    File(<<"I", "D", "=", "\n">>) }

Responses == {
    NoExc,
    Exc("HTTPError", 404, "Not Found"),
    Exc("HTTPError", 500, "Server Error"),
    Exc("URLError", 0, "Connection refused"),
    Exc("OSError", 0, "Disk error"),
    Exc("ValueError", 0, "Unexpected error") }

Prog == "kc-compat.py"
Argvs == {
    <<Prog>>, <<Prog, "--silent">>, <<Prog, "-q">>, <<Prog, "--report">>,
    <<Prog, "--verbose">>, <<Prog, "--silent", "--report">>,
    <<Prog, "--report", "-q">> }

(* ---------------------------------------------------------------- main *)

\* how an invocation ended, and the arguments it was given
NoResult == [kind |-> "none", code |-> -1, argv |-> <<>>]
Result ==
    IF pc = "done" THEN [kind |-> "return", code |-> code, argv |-> argv]
    ELSE IF pc = "raised" THEN [kind |-> "raise", code |-> -1, argv |-> argv]
    ELSE NoResult

Fresh ==
    /\ pc = "args"
    /\ silent = FALSE /\ report = FALSE
    /\ version_data = <<>> /\ kernel_hash = <<>>
    /\ distro_name = None /\ distro_version = None
    /\ compat = [exc |-> NoExc, ret |-> FALSE]
    /\ out = <<>> /\ code = -1 /\ exc = NoExc /\ requests = <<>>

MkFs(veinfo, vzversion, cgroup, version, osrelease) ==
    [p \in Paths |->
        CASE p = P_VEINFO -> veinfo
          [] p = P_VZVERSION -> vzversion
          [] p = P_CGROUP -> cgroup
          [] p = P_VERSION -> version
          [] p = P_OSRELEASE -> osrelease]

Init ==
    /\ \E veinfo \in {Missing, File(<<>>)}, vzversion \in {Missing, File(<<>>)},
          cgroup \in CgroupFiles, version \in VersionFiles,
          osrelease \in OsReleaseFiles :
          fs = MkFs(veinfo, vzversion, cgroup, version, osrelease)
    /\ net \in Responses
    /\ argv \in Argvs
    /\ prev = NoResult
    /\ Fresh

parse_silent(a) == Len(a) > 1 /\ (a[2] = "--silent" \/ a[2] = "-q")
\* --report looked for among all the arguments
parse_report_anywhere(a) == \E i \in 2..Len(a) : a[i] = "--report"
parse_report(a) == Len(a) > 1 /\ a[2] = "--report"

ParseArgs ==
    /\ pc = "args"
    /\ silent' = parse_silent(argv)
    /\ report' = parse_report(argv)
    /\ pc' = "container"
    /\ UNCHANGED <<env, argv, version_data, kernel_hash, distro_name,
                   distro_version, compat, out, code, exc, requests, prev>>

ContainerCheck ==
    /\ pc = "container"
    /\ LET vz == inside_vz_container(fs)
           lxc == inside_lxc_container(fs)
       IN IF vz \/ (lxc.exc = NoExc /\ lxc.ret)
          THEN /\ out' = myprint(silent, out, Line("UNSUPPORTED; INSIDE CONTAINER", <<>>))
               /\ code' = 2
               /\ pc' = "done"
               /\ exc' = exc
          ELSE IF lxc.exc # NoExc
               THEN /\ exc' = lxc.exc
                    /\ pc' = "raised"
                    /\ UNCHANGED <<out, code>>
               ELSE /\ pc' = "readver"
                    /\ UNCHANGED <<out, code, exc>>
    /\ UNCHANGED <<env, argv, locals, requests, prev>>

\* the read left without its own try: the failure is reported as a system error
ReadVersion_system_error ==
    /\ pc = "readver"
    /\ IF fs[P_VERSION].st = "ok"
       THEN /\ version_data' = fs[P_VERSION].data
            /\ kernel_hash' = get_kernel_hash_from_data(fs[P_VERSION].data)
            /\ pc' = "distro"
            /\ UNCHANGED <<out, code>>
       ELSE /\ out' = myprint(silent, out, Line("SYSTEM ERROR; %s", <<"Permission denied">>))
            /\ code' = 4
            /\ pc' = "done"
            /\ UNCHANGED <<version_data, kernel_hash>>
    /\ UNCHANGED <<env, argv, silent, report, distro_name, distro_version,
                   compat, exc, requests, prev>>

ReadVersion ==
    /\ pc = "readver"
    /\ LET data == IF fs[P_VERSION].st = "ok" THEN fs[P_VERSION].data ELSE <<>>
       IN /\ version_data' = data
          /\ kernel_hash' = get_kernel_hash_from_data(data)
    /\ pc' = "distro"
    /\ UNCHANGED <<env, argv, silent, report, distro_name, distro_version,
                   compat, out, code, exc, requests, prev>>

GetDistro ==
    /\ pc = "distro"
    /\ LET d == get_distro_info(fs)
       IN /\ distro_name' = d.name
          /\ distro_version' = d.version
    /\ pc' = "report"
    /\ UNCHANGED <<env, argv, silent, report, version_data, kernel_hash,
                   compat, out, code, exc, requests, prev>>

\* the report block ending the run
ReportBlock_returns ==
    /\ pc = "report"
    /\ IF report
       THEN /\ out' = out \o ReportLines(kernel_hash, distro_name, distro_version, version_data)
            /\ code' = 0
            /\ pc' = "done"
       ELSE /\ pc' = "check"
            /\ UNCHANGED <<out, code>>
    /\ UNCHANGED <<env, argv, locals, exc, requests, prev>>

ReportBlock ==
    /\ pc = "report"
    /\ out' = IF report
              THEN out \o ReportLines(kernel_hash, distro_name, distro_version, version_data)
              ELSE out
    /\ pc' = "check"
    /\ UNCHANGED <<env, argv, locals, code, exc, requests, prev>>

RemoteCheck ==
    /\ pc = "check"
    /\ requests' = Append(requests, Url(kernel_hash))
    /\ compat' = is_compat(net)
    /\ pc' = "verdict"
    /\ UNCHANGED <<env, argv, silent, report, version_data, kernel_hash,
                   distro_name, distro_version, out, code, exc, prev>>

Verdict ==
    /\ pc = "verdict"
    /\ IF compat.exc = NoExc
       THEN IF compat.ret
            THEN /\ out' = myprint(silent, out, Line("COMPATIBLE", <<>>))
                 /\ code' = 0
            ELSE /\ code' = 1
                 /\ out' = myprint(silent,
                              myprint(silent, out, Line("NEEDS REVIEW", <<>>)),
                              Line(IF Truthy(distro_name) /\ is_distro_supported(distro_name.v)
                                   THEN MSG_SUPPORTED ELSE MSG_GENERIC, <<>>))
       ELSE LET h == Handler(compat.exc)
            IN /\ out' = myprint(silent, out, Line(h.fmt, HandlerArg(h, compat.exc)))
               /\ code' = h.ret
    /\ pc' = "done"
    /\ UNCHANGED <<env, argv, locals, exc, requests, prev>>

\* the script is invoked again on the same machine with other arguments
Invoke ==
    /\ pc \in {"done", "raised"}
    /\ prev' = Result
    /\ argv' \in Argvs
    /\ pc' = "args"
    /\ silent' = FALSE /\ report' = FALSE
    /\ version_data' = <<>> /\ kernel_hash' = <<>>
    /\ distro_name' = None /\ distro_version' = None
    /\ compat' = [exc |-> NoExc, ret |-> FALSE]
    /\ out' = <<>> /\ code' = -1 /\ exc' = NoExc /\ requests' = <<>>
    /\ UNCHANGED env

Next ==
    \/ ParseArgs
    \/ ContainerCheck
    \/ ReadVersion
    \/ GetDistro
    \/ ReportBlock
    \/ RemoteCheck
    \/ Verdict
    \/ Invoke

Spec == Init /\ [][Next]_vars

(* ------------------------------------------- get_distro_info on its own *)

MaxValueLen == 3

ValueChars == {"a", "\"", "'", " "}
ValueTexts == UNION {[1..k -> ValueChars] : k \in 0..MaxValueLen}
ShortTexts == {<<>>, <<"b">>, <<"'", "b", "'">>}
Keys == { <<"I", "D", "=">>,
          <<"V", "E", "R", "S", "I", "O", "N", "_", "I", "D", "=">>,
          <<"I", "D", "_", "L", "I", "K", "E", "=">>,
          <<" ", "I", "D", "=">> }
LongLines == {k \o v \o <<"\n">> : k \in Keys, v \in ValueTexts}
ShortLines == {k \o v \o <<"\n">> : k \in Keys, v \in ShortTexts}

\* OS-release files of at most two lines, one of them with any value text
ParseFiles ==
    {File(l1 \o l2) : l1 \in LongLines \cup {<<>>}, l2 \in ShortLines \cup {<<>>}}
    \cup {File(l2 \o l1) : l1 \in LongLines, l2 \in ShortLines}
    \cup OsReleaseFiles
    \cup { File(<<"I", "D", "=", "\"", "\"", "c", "e", "n", "t", "o", "s", "\"", "\"", "\n">>),
           File(<<" ", "I", "D", "=", "a", "=", "b", " ", "\n", "I", "D", "_", "L", "I", "K", "E", "=", "c">>) }

InitParse ==
    /\ \E osrelease \in ParseFiles :
          fs = MkFs(Missing, Missing, File(<<>>), File(<<>>), osrelease)
    /\ net = NoExc /\ argv = <<Prog>> /\ prev = NoResult
    /\ pc = "call"
    /\ silent = FALSE /\ report = FALSE
    /\ version_data = <<>> /\ kernel_hash = <<>>
    /\ distro_name = None /\ distro_version = None
    /\ compat = [exc |-> NoExc, ret |-> FALSE]
    /\ out = <<>> /\ code = -1 /\ exc = NoExc /\ requests = <<>>

\* a call of get_distro_info() and its return
DistroInfoCall ==
    /\ pc = "call"
    /\ LET d == get_distro_info(fs)
       IN /\ distro_name' = d.name
          /\ distro_version' = d.version
    /\ pc' = "returned"
    /\ UNCHANGED <<env, argv, silent, report, version_data, kernel_hash,
                   compat, out, code, exc, requests, prev>>

NextParse == DistroInfoCall

SpecParse == InitParse /\ [][NextParse]_vars

(* -------------------------------------------------------------- claims *)

Terminal == pc \in {"done", "raised"}

\* what the markers on disk say, a missing or unreadable file being an
\* absent marker
VzMarker == fs[P_VEINFO].st # "missing" /\ fs[P_VZVERSION].st = "missing"
LxcMarker ==
    /\ fs[P_CGROUP].st = "ok"
    /\ \E i \in 1..Len(fs[P_CGROUP].data) :
          /\ i + 4 <= Len(fs[P_CGROUP].data)
          /\ SubSeq(fs[P_CGROUP].data, i, i + 4) = <<"/", "l", "x", "c", "/">>
InContainer == VzMarker \/ LxcMarker

FirstArg(a) == IF Len(a) > 1 THEN a[2] ELSE ""
SilentFlag == FirstArg(argv) \in {"--silent", "-q"}
ReportFlag == FirstArg(argv) = "--report"

Is404 == net.cls = "HTTPError" /\ net.code = 404

\* the lines printed after the report block
VerdictLines == IF ReportFlag THEN SubSeq(out, 7, Len(out)) ELSE out

\* C1: outside a container and with no flag, a compatible answer prints the
\* single line COMPATIBLE and returns 0; a 404 prints NEEDS REVIEW and one
\* support message and returns 1, the message being the 'We support your
\* distribution' text iff the detected name is in SUPPORTED_DISTROS.
C1_PlainVerdict ==
    (pc = "done" /\ requests # <<>> /\ ~SilentFlag /\ ~ReportFlag) =>
        /\ net = NoExc => (out = <<Line("COMPATIBLE", <<>>)>> /\ code = 0)
        /\ Is404 =>
              /\ code = 1
              /\ out = << Line("NEEDS REVIEW", <<>>),
                          Line(IF distro_name.some /\ distro_name.v \in SUPPORTED_DISTROS
                               THEN MSG_SUPPORTED ELSE MSG_GENERIC, <<>>) >>

C1_Witness ==
    /\ pc = "done" /\ ~SilentFlag /\ ~ReportFlag /\ Is404
    /\ distro_name = Some(<<"c", "e", "n", "t", "o", "s">>)
    /\ Len(out) = 2 /\ out[2].fmt = MSG_SUPPORTED /\ code = 1

\* C2: when a container is detected main prints only UNSUPPORTED; INSIDE
\* CONTAINER (nothing when silent), returns 2 and never reaches the kernel
\* hash, the report block or the remote check; and 2 is returned only then.
C2_ContainerTerminal ==
    /\ (InContainer /\ pc \notin {"args", "container"}) =>
          /\ pc = "done" /\ code = 2
          /\ out = IF SilentFlag THEN <<>>
                   ELSE <<Line("UNSUPPORTED; INSIDE CONTAINER", <<>>)>>
          /\ kernel_hash = <<>> /\ version_data = <<>> /\ requests = <<>>
    /\ (pc = "done" /\ code = 2) => InContainer

C2_Witness ==
    /\ pc = "done" /\ code = 2 /\ LxcMarker /\ ~VzMarker /\ ReportFlag
    /\ out = <<Line("UNSUPPORTED; INSIDE CONTAINER", <<>>)>>

\* C3: a failure of the remote check is classified once, first match wins:
\* HTTP error other than 404 -> CONNECTION ERROR; HTTP <code>, 3; URL error
\* -> CONNECTION ERROR; <reason>, 3; I/O error -> SYSTEM ERROR, 4; anything
\* else -> UNEXPECTED ERROR, 5; a 404 is never reported as an error.
C3_ErrorClasses ==
    (pc = "done" /\ requests # <<>> /\ net # NoExc) =>
        LET printed(l) == VerdictLines = IF SilentFlag THEN <<>> ELSE <<l>>
        IN CASE net.cls = "HTTPError" /\ net.code # 404 ->
                    /\ code = 3
                    /\ printed(Line("CONNECTION ERROR; HTTP %d", <<ToString(net.code)>>))
             [] net.cls = "HTTPError" /\ net.code = 404 ->
                    /\ code = 1
                    /\ \A i \in 1..Len(VerdictLines) :
                          VerdictLines[i].fmt \in {"NEEDS REVIEW", MSG_SUPPORTED, MSG_GENERIC}
             [] net.cls = "URLError" ->
                    /\ code = 3
                    /\ printed(Line("CONNECTION ERROR; %s", <<net.msg>>))
             [] net.cls = "OSError" ->
                    /\ code = 4
                    /\ printed(Line("SYSTEM ERROR; %s", <<net.msg>>))
             [] OTHER ->
                    /\ code = 5
                    /\ printed(Line("UNEXPECTED ERROR; %s", <<net.msg>>))

C3_Witness ==
    /\ pc = "done" /\ net = Exc("HTTPError", 500, "Server Error") /\ code = 3
    /\ out = <<Line("CONNECTION ERROR; HTTP %d", <<"500">>)>>

\* C4: when the first argument is --silent or -q nothing is printed at any
\* point of the run, on any path.
C4_SilentPrintsNothing == SilentFlag => out = <<>>

C4_Witness ==
    /\ SilentFlag /\ Len(argv) = 3 /\ argv[3] = "--report"
    /\ pc = "done" /\ code = 1 /\ out = <<>>

\* C5: two invocations in the same environment that differ only in their
\* arguments end the same way, with the same exit code.
C5_ExitCodeIgnoresFlag ==
    (Terminal /\ prev.kind # "none") =>
        (Result.kind = prev.kind /\ Result.code = prev.code)

C5_Witness ==
    /\ pc = "done" /\ prev.kind = "return" /\ code = 3
    /\ FirstArg(prev.argv) = "--report" /\ SilentFlag

\* C6: container detection never raises: with /proc/1/cgroup missing or
\* unreadable the marker counts as absent, and main goes on to end with one
\* of the exit codes 0-5.
C6_DetectionNeverRaises ==
    /\ pc # "raised"
    /\ (fs[P_CGROUP].st # "ok" /\ Terminal) =>
          (pc = "done" /\ code \in 0..5 /\ (code = 2 <=> VzMarker))

C8_VersionReadTolerated ==
    /\ pc = "raised" => kernel_hash = <<>>
    /\ (fs[P_VERSION].st # "ok" /\ pc \in {"distro", "report", "check", "verdict"}) =>
          (version_data = <<>> /\ kernel_hash = get_kernel_hash_from_data(<<>>))
    /\ (fs[P_VERSION].st # "ok" /\ pc = "done" /\ code # 2) =>
          /\ version_data = <<>>
          /\ requests = << <<"http://patches.kernelcare.com/", "sha1:", "/version">> >>
          /\ code = (CASE net = NoExc -> 0
                       [] Is404 -> 1
                       [] net.cls \in {"HTTPError", "URLError"} /\ ~Is404 -> 3
                       [] net.cls = "OSError" -> 4
                       [] OTHER -> 5)
    /\ code = 4 => (requests # <<>> /\ net.cls = "OSError")

C8_Witness ==
    /\ fs[P_VERSION] = Unreadable /\ pc = "done" /\ code = 0
    /\ requests = <<Url(get_kernel_hash_from_data(<<>>))>>

\* C9: one invocation issues exactly one GET, to the URL built from this
\* run's kernel hash, when it is not inside a container, and none when it is.
C9_OneRequestPerRun ==
    /\ Len(requests) <= 1
    /\ \A i \in 1..Len(requests) : requests[i] = Url(kernel_hash)
    /\ Terminal => Len(requests) = IF InContainer THEN 0 ELSE 1

\* the lines of the OS-release file, without their terminators: the pieces
\* between the newlines
OsReleaseLines ==
    LET d == fs[P_OSRELEASE].data
        cuts == {0} \cup {i \in 1..Len(d) : d[i] = "\n"} \cup {Len(d) + 1}
        starts == {i \in cuts : i <= Len(d)}
        next(i) == CHOOSE j \in cuts : j > i /\ \A k \in cuts : k > i => j <= k
        n == Cardinality(starts)
        nth(m) == CHOOSE i \in starts : Cardinality({j \in starts : j < i}) = m - 1
    IN [m \in 1..n |-> SubSeq(d, nth(m) + 1, next(nth(m)) - 1)]

\* v is s less a run of characters of the set at each end, as long as can be
IsStripOf(v, s, chars) ==
    \E i \in 0..Len(s) : \E j \in i..Len(s) :
        /\ v = SubSeq(s, i + 1, j)
        /\ \A k \in 1..i : s[k] \in chars
        /\ \A k \in (j + 1)..Len(s) : s[k] \in chars
        /\ v # <<>> => (v[1] \notin chars /\ v[Len(v)] \notin chars)

\* v is s less one enclosing layer of quotes: at most one quote character
\* from each end
IsOneLayerOf(v, s) ==
    \E i \in {0, 1} : \E j \in {0, 1} :
        /\ i + j <= Len(s)
        /\ v = SubSeq(s, i + 1, Len(s) - j)
        /\ i = 1 <=> (s # <<>> /\ s[1] \in Quotes)
        /\ j = 1 <=> (Len(s) > i /\ s[Len(s)] \in Quotes)

SubTexts(t) == {SubSeq(t, a, b) : a \in 1..(Len(t) + 1), b \in 0..Len(t)}
StripOf(s, chars) == CHOOSE v \in SubTexts(s) : IsStripOf(v, s, chars)
OneLayerOf(s) == CHOOSE v \in SubTexts(s) : IsOneLayerOf(v, s)
AfterEquals(t) == SubSeq(t, IndexOf(t, "=") + 1, Len(t))

\* the trimmed text of the line that decides the entry for key: the last
\* line that, trimmed, begins with key; <<>> when there is none
DecidingLine(key) ==
    LET ls == [m \in 1..Len(OsReleaseLines) |-> StripOf(OsReleaseLines[m], Whitespace)]
        hits == {m \in 1..Len(ls) : StartsWith(ls[m], key)}
    IN IF fs[P_OSRELEASE].st # "ok" \/ hits = {} THEN <<>>
       ELSE ls[CHOOSE m \in hits : \A k \in hits : k <= m]

\* C10: get_distro_info() returns the value of the last line beginning with
\* ID= as the name and of the last line beginning with VERSION_ID= as the
\* version (absent when there is none), a value being the text after the
\* first '=' with exactly one layer of enclosing quotes stripped and the
\* surrounding whitespace trimmed.
C10_OneLayerOfQuotes ==
    pc = "returned" =>
        LET holds(got, key) ==
                LET t == DecidingLine(key)
                IN IF t = <<>> THEN got = None
                   ELSE got = Some(OneLayerOf(StripOf(AfterEquals(t), Whitespace)))
        IN /\ holds(distro_name, <<"I", "D", "=">>)
           /\ holds(distro_version, <<"V", "E", "R", "S", "I", "O", "N", "_", "I", "D", "=">>)

\* C10 as amended: the value is the text after the first '=' with the
\* surrounding whitespace trimmed and then every leading and trailing quote
\* character stripped, however many there are; the deciding line is the
\* last one that, trimmed, begins with the key; with no file or no such
\* line the entry is absent.
C10_AllQuotesStripped ==
    pc = "returned" =>
        LET holds(got, key) ==
                LET t == DecidingLine(key)
                IN IF t = <<>> THEN got = None
                   ELSE /\ got.some
                        /\ IsStripOf(got.v, StripOf(AfterEquals(t), Whitespace), Quotes)
        IN /\ holds(distro_name, <<"I", "D", "=">>)
           /\ holds(distro_version, <<"V", "E", "R", "S", "I", "O", "N", "_", "I", "D", "=">>)

C10_Witness ==
    /\ pc = "returned"
    /\ fs[P_OSRELEASE] = File(<<"I", "D", "=", "\"", "\"", "c", "e", "n", "t", "o", "s", "\"", "\"", "\n">>)
    /\ distro_name = Some(<<"c", "e", "n", "t", "o", "s">>) /\ distro_version = None

====
